---- MODULE Spec2Model ----
(***************************************************************************)
(* The log-structured key/value engine of src/src/engines/kvs.rs: log      *)
(* files by generation, the shared index, the writer behind its mutex,     *)
(* the compaction it runs, and the engine clones with their private        *)
(* reader caches (specification Spec).                                     *)
(* The shared-queue worker pool of src/src/thread_pool/shared_queue.rs     *)
(* (PoolSpec, PoolFairSpec), the connection loop of src/src/server.rs      *)
(* (ServeSpec) and the engine selection of src/src/bin/kvs-server.rs       *)
(* (MainSpec). UnlinkFaultSpec and WriteFaultSpec are the engine driven by  *)
(* one caller when fs::remove_file, a flush or the directory listing can   *)
(* fail; KvSpec is the single-threaded KvStore of src/src/kv.rs. The       *)
(* specifications share Init and each moves its own variables.             *)
(***************************************************************************)
EXTENDS Integers, Sequences, FiniteSets, TLC

(* ------------------------------ bounds --------------------------------- *)

\* number of set / successful remove / reopen operations in one behaviour
MaxOps == 4

\* engine clones, one per thread
Threads == {"t1", "t2"}

\* keys in the iteration order of the skip list
KeySeq == <<"a", "bb">>
Keys == {KeySeq[i] : i \in 1..Len(KeySeq)}
KeyRank(k) == CHOOSE i \in 1..Len(KeySeq) : KeySeq[i] = k

\* byte lengths of the values written: long ones for the first key, whose
\* overwrite passes the compaction threshold, short ones for the others
BigLen == 1048576
SmallLen == 1
ValueLen(k) == IF k = KeySeq[1] THEN BigLen ELSE SmallLen

(* --------------------------- program constants ------------------------- *)

COMPACTION_THRESHOLD == 1024 * 1024

\* capacity of the BufWriter inside BufWriterWithPos, and the chunk io::copy moves
BufCap == 8192

(* ------------------------------ records -------------------------------- *)

NoThread == "none"
NoKey == "-"
NoVal == [id |-> 0, len |-> 0]
NoPos == [gen |-> 0, pos |-> 0, len |-> 0]

\* Command::set / Command::rm
CommandSet(key, value) == [op |-> "Set", key |-> key, value |-> value, n |-> 0]
CommandRm(key) == [op |-> "Remove", key |-> key, value |-> NoVal, n |-> 0]
\* n bytes that are no complete record (the result of a short copy)
Junk(n) == [op |-> "Junk", key |-> NoKey, value |-> NoVal, n |-> n]

\* length of the serde_json encoding of a command:
\* {"Set":{"key":"..","value":".."}} and {"Remove":{"key":".."}}
EncLen(c) ==
  CASE c.op = "Set" -> 29 + Len(c.key) + c.value.len
    [] c.op = "Remove" -> 21 + Len(c.key)
    [] OTHER -> c.n

\* CommandPos::new
CommandPos(gen, pos, len) == [gen |-> gen, pos |-> pos, len |-> len]

RECURSIVE SumLen(_)
SumLen(recs) == IF recs = <<>> THEN 0 ELSE EncLen(Head(recs)) + SumLen(Tail(recs))

\* byte offset of the i-th record of a file
Offset(recs, i) == SumLen(SubSeq(recs, 1, i - 1))

\* a log file: the records written through its writer, how many of their bytes
\* have reached the file, and whether its name is still in the directory
NewFile == [recs |-> <<>>, flushed |-> 0, linked |-> TRUE]

Max(a, b) == IF a > b THEN a ELSE b
Min(a, b) == IF a < b THEN a ELSE b

\* results of the engine calls
Pending == [t |-> "Pending"]
ResOk == [t |-> "Ok"]
ResNone == [t |-> "None"]
ResSome(v) == [t |-> "Some", v |-> v]
ResErr(e) == [t |-> "Err", e |-> e]

(* ------------------------------- state --------------------------------- *)

VARIABLES
  files,        \* gen -> log file <gen>.log (kept while linked or held open)
  index,        \* the shared SkipMap: key -> CommandPos
  writer,       \* KvStoreWriter.writer: [gen, pos] of the append stream
  cur_gen,      \* KvStoreWriter.cur_gen
  uncompacted,  \* KvStoreWriter.uncompacted
  safe_point,   \* KvStoreReader.safe_point, shared by all readers
  wreaders,     \* KvStoreWriter.reader.readers: gens with an open handle
  readers,      \* per clone: KvStore.reader.readers, gens with an open handle
  mutex,        \* the thread inside writer.lock(), or NoThread
  comp,         \* locals of a running compact()
  th,           \* per thread: position in its call, arguments and locals
  ret,          \* the call the last step returned from, with its result
  map,          \* lib.rs KvStore: the plain key -> value map
  wrote,        \* per key, the values the sets so far were called with
  opened,       \* the generations the last open found in the directory
  nops          \* operations started so far

kvs_vars ==
  <<files, index, writer, cur_gen, uncompacted, safe_point, wreaders, readers,
    mutex, comp, th, ret, map, wrote, opened, nops>>

\* SharedQueueThreadPool and its worker threads
VARIABLES
  pool,         \* where the owner of the pool is: new, alive, dropped, ...
  threads,      \* the argument of new
  workers,      \* the worker threads spawned so far, in spawn order
  queue,        \* the unbounded channel: the tasks sent and not yet received
  executed,     \* the tasks a worker has called
  submitted     \* number of tasks spawn was called with

pool_vars == <<pool, threads, workers, queue, executed, submitted>>

\* serve() on one connection
VARIABLES
  conn,         \* position of serve() in its loop, and how it returned
  reqs,         \* the requests decoded so far, each with the engine's result
  wbuf,         \* responses in the BufWriter of the connection
  wire,         \* responses flushed to the socket
  store         \* the engine behind the connection, as the plain map

serve_vars == <<conn, reqs, wbuf, wire, store>>

\* kvs-server: main() and the engine file of the working directory
VARIABLES
  engine_file,  \* content of ./engine, or NoFile
  proc,         \* the server process: position in main()/run() and its locals
  runs          \* number of times the server was started

main_vars == <<engine_file, proc, runs>>

\* the failures of fs::remove_file in compact()
VARIABLES
  unlink_failed \* <<gen, compaction_gen>>: the compaction could not unlink gen

fault_vars == <<unlink_failed>>

\* the single-threaded store of kv.rs
VARIABLES
  kv,           \* the KvStore struct: index, uncompacted, readers, writer, cur_gen
  kv_dir,       \* the log files of its directory
  kv_ret,       \* the call that returned last, with its result
  kv_nops       \* calls made so far

kv_vars == <<kv, kv_dir, kv_ret, kv_nops>>

vars == <<kvs_vars, pool_vars, serve_vars, main_vars, fault_vars, kv_vars>>

(* -------------------------- files and handles -------------------------- *)

\* the directory listing: generations whose <gen>.log is linked
Linked(F) == {g \in DOMAIN F : F[g].linked}

RECURSIVE SortSet(_)
SortSet(S) ==
  IF S = {} THEN <<>>
  ELSE LET m == CHOOSE x \in S : \A y \in S : x <= y
       IN <<m>> \o SortSet(S \ {m})

\* a listing with the newest generation only
NewestGenOnly(F) ==
  IF Linked(F) = {} THEN <<>>
  ELSE <<CHOOSE g \in Linked(F) : \A h \in Linked(F) : h <= g>>

\* sorted_gen_list: the parseable generations of the directory, ascending
sorted_gen_list(F) == SortSet(Linked(F))

\* new_log_file: create(true), no truncate: an existing file keeps its content
new_log_file(F, gen) ==
  IF gen \in DOMAIN F /\ F[gen].linked THEN F
  ELSE [g \in DOMAIN F \cup {gen} |-> IF g = gen THEN NewFile ELSE F[g]]

\* the i of the record of f that occupies exactly the bytes [pos, pos+len)
RecAt(f, pos, len) ==
  {i \in 1..Len(f.recs) : Offset(f.recs, i) = pos /\ EncLen(f.recs[i]) = len}

\* seek(pos), take(len), serde_json::from_reader: the command encoded by the
\* len bytes at pos when all of them are in the file, else no command
ReadAt(f, pos, len) ==
  LET I == RecAt(f, pos, len)
  IN IF I # {} /\ pos + len <= f.flushed
     THEN f.recs[CHOOSE i \in I : TRUE]
     ELSE Junk(Max(0, Min(len, f.flushed - pos)))

\* to_writer + flush on the append stream: the record is in the file
AppendFlush(F, gen, c) ==
  [F EXCEPT ![gen] = [@ EXCEPT !.recs = Append(@, c),
                               !.flushed = SumLen(Append(F[gen].recs, c))]]

\* io::copy of n bytes into a BufWriterWithPos holding buf unwritten bytes:
\* whole chunks of BufCap bytes go straight to the file after the buffer is
\* written out, a shorter rest stays in the buffer
CopyFlushed(flushed, buf, n) ==
  IF n >= BufCap THEN flushed + buf + (n \div BufCap) * BufCap
  ELSE IF buf + n > BufCap THEN flushed + buf
  ELSE flushed

CopyInto(F, gen, c) ==
  LET f == F[gen]
      buf == SumLen(f.recs) - f.flushed
  IN [F EXCEPT ![gen] = [@ EXCEPT !.recs = Append(@, c),
                                  !.flushed = CopyFlushed(f.flushed, buf, EncLen(c))]]

\* a flush that writes nothing out
FlushNothing(F, gen) == F

\* BufWriterWithPos::flush
Flush(F, gen) == [F EXCEPT ![gen] = [@ EXCEPT !.flushed = SumLen(F[gen].recs)]]

\* a remove_file that removes nothing
UnlinkNothing(F, gen) == F

\* fs::remove_file: the name goes, the content stays for the open handles
Unlink(F, gen) ==
  IF gen \in DOMAIN F THEN [F EXCEPT ![gen] = [@ EXCEPT !.linked = FALSE]] ELSE F

\* an unlinked file no handle refers to is gone
Reclaim(F, held) == [g \in {h \in DOMAIN F : F[h].linked \/ h \in held} |-> F[g]]

AllHeld(R, wr) == UNION {R[t] : t \in Threads} \cup wr

(* ------------------------------- the index ----------------------------- *)

EmptyIndex == [k \in {} |-> NoPos]

\* an insert that keeps the entry a key already has (get_or_insert)
IndexInsertIfAbsent(idx, key, cp) ==
  [k \in DOMAIN idx \cup {key} |-> IF k \in DOMAIN idx THEN idx[k] ELSE cp]

\* SkipMap::insert: the entry of key is replaced
IndexInsert(idx, key, cp) ==
  [k \in DOMAIN idx \cup {key} |-> IF k = key THEN cp ELSE idx[k]]

\* a remove that leaves the entry in place
IndexRemoveNothing(idx, key) == idx

\* SkipMap::remove
IndexRemove(idx, key) == [k \in DOMAIN idx \ {key} |-> idx[k]]

\* the entry index.iter() yields after the entry of rank last (0: the first)
NextKeys(idx, last) == {k \in DOMAIN idx : KeyRank(k) > last}
NextKey(idx, last) ==
  CHOOSE k \in NextKeys(idx, last) : \A j \in NextKeys(idx, last) : KeyRank(k) <= KeyRank(j)

(* --------------------------------- open -------------------------------- *)

\* a replay that skips the Remove commands
LoadCommandNoRemove(gen, c, pos, st) ==
  IF c.op = "Set"
  THEN [index |-> IndexInsert(st.index, c.key, CommandPos(gen, pos, EncLen(c))),
        uncompacted |-> st.uncompacted]
  ELSE st

\* load: replay the commands of one generation into the index; the result is
\* the index and the number of bytes the replay found superseded.
\* One command of load, at bytes [pos, pos + EncLen(c)) of generation gen:
LoadCommand(gen, c, pos, st) ==
  CASE c.op = "Set" ->
         [index |-> IndexInsert(st.index, c.key, CommandPos(gen, pos, EncLen(c))),
          uncompacted |-> st.uncompacted +
             (IF c.key \in DOMAIN st.index THEN st.index[c.key].len ELSE 0)]
    [] c.op = "Remove" ->
         [index |-> IndexRemove(st.index, c.key),
          uncompacted |-> st.uncompacted +
             (IF c.key \in DOMAIN st.index THEN st.index[c.key].len ELSE 0) + EncLen(c)]
    [] OTHER -> st

RECURSIVE load(_, _, _, _)
load(gen, recs, i, st) ==
  IF i > Len(recs) THEN st
  ELSE load(gen, recs, i + 1, LoadCommand(gen, recs[i], Offset(recs, i), st))

RECURSIVE LoadAll(_, _, _)
LoadAll(F, gens, st) ==
  IF gens = <<>> THEN st
  ELSE LoadAll(F, Tail(gens), load(Head(gens), F[Head(gens)].recs, 1, st))

\* the number of generations, plus one
OpenGenCount(gens) == Len(gens) + 1

\* the last generation of the directory, 0 when there is none, plus one
OpenGen(gens) == (IF gens = <<>> THEN 0 ELSE gens[Len(gens)]) + 1

\* KvStore::open on the directory F
open(F) ==
  LET gens == sorted_gen_list(F)
      st == LoadAll(F, gens, [index |-> EmptyIndex, uncompacted |-> 0])
      gen == OpenGen(gens)
  IN [files |-> new_log_file(F, gen),
      index |-> st.index,
      uncompacted |-> st.uncompacted,
      cur_gen |-> gen,
      writer |-> [gen |-> gen, pos |-> 0]]

(* ------------------------------- threads ------------------------------- *)

\* a thread between calls. key, val, cp are the arguments and locals of the
\* call in progress and res its result; the other fields record what went on
\* around the call:
\*   exp    the plain map's answer for key when a get started
\*   ovl    some set/remove was in progress during the get
\*   same   a set/remove of the get's own key was in progress during the get
\*   cmp    a compaction was in progress during the get
\*   held   one thread has held the writer mutex since the get started
\*   had    the plain map contained key when the remove started
\*   ran    the set ran a compaction
Idle ==
  [pc |-> "idle", op |-> "-", key |-> NoKey, val |-> NoVal, cp |-> NoPos,
   res |-> Pending, exp |-> Pending, ovl |-> FALSE, same |-> FALSE,
   cmp |-> FALSE, held |-> FALSE, had |-> FALSE, ran |-> FALSE]

GetPcs == {"get_open", "get_read"}
CompactPcs ==
  {"compact", "compact_copy", "compact_publish", "compact_unlink"}

NoComp == [gens |-> <<>>, gen |-> 0, cur_pos |-> 0, last |-> 0]

\* lib.rs KvStore::get / set / remove on the plain map
MapGet(M, k) == IF k \in DOMAIN M THEN ResSome(M[k]) ELSE ResNone
MapSet(M, k, v) == [j \in DOMAIN M \cup {k} |-> IF j = k THEN v ELSE M[j]]
MapRemove(M, k) == [j \in DOMAIN M \ {k} |-> M[j]]

\* the gets in progress note that thread t starts a set/remove of key k
NoteStart(T, t, k) ==
  [u \in Threads |->
     IF u # t /\ T[u].pc \in GetPcs
     THEN [T[u] EXCEPT !.ovl = TRUE, !.same = @ \/ T[u].key = k]
     ELSE T[u]]

\* the gets in progress note that a compaction starts
NoteCompact(T) ==
  [u \in Threads |-> IF T[u].pc \in GetPcs THEN [T[u] EXCEPT !.cmp = TRUE] ELSE T[u]]

\* the gets in progress note that the mutex is released
NoteUnlock(T) ==
  [u \in Threads |-> IF T[u].pc \in GetPcs THEN [T[u] EXCEPT !.held = FALSE] ELSE T[u]]

\* the call c returns r
Returned(c, r) == [c EXCEPT !.pc = "idle", !.res = r, !.cp = NoPos, !.val = NoVal]

\* every call takes the lock
NeedsLockAll(op) == TRUE

\* only set takes the lock
NeedsLockSetOnly(op) == op = "set"

\* the calls of KvsEngine that go through self.writer.lock()
NeedsLock(op) == op \in {"set", "remove"}

\* a call of kind op can proceed: the mutex is free, or it takes none
MayProceed(op) == NeedsLock(op) => mutex = NoThread

(* --------------------------------- Init -------------------------------- *)

EmptyDir == [g \in {} |-> NewFile]

\* no ./engine file in the working directory
NoFile == "<absent>"

\* no kvs-server process
NoProc == [pc |-> "none", flag |-> "none", pre |-> "none", engine |-> "none",
           found |-> NoFile, code |-> 0]

\* serve() at the head of its loop
ConnOpen == [pc |-> "read", end |-> "-"]

\* no KvStore of kv.rs has been opened
NoStore ==
  [st |-> "none", index |-> [k \in {} |-> NoPos], uncompacted |-> 0,
   readers |-> {}, writer |-> [gen |-> 0, pos |-> 0], cur_gen |-> 0]

\* no call of the kv.rs store has returned
NoCall == [op |-> "-", key |-> NoKey, val |-> NoVal, res |-> Pending, exp |-> Pending]

Init ==
  LET o == open(EmptyDir)
  IN /\ files = o.files
     /\ index = o.index
     /\ writer = o.writer
     /\ cur_gen = o.cur_gen
     /\ uncompacted = o.uncompacted
     /\ safe_point = 0
     /\ wreaders = {}
     /\ readers = [t \in Threads |-> {}]
     /\ mutex = NoThread
     /\ comp = NoComp
     /\ th = [t \in Threads |-> Idle]
     /\ ret = [Idle EXCEPT !.op = "open"]
     /\ map = [k \in {} |-> NoVal]
     /\ wrote = [k \in Keys |-> {}]
     /\ opened = Linked(EmptyDir)
     /\ nops = 0
     /\ pool = "none"
     /\ threads = 0
     /\ workers = <<>>
     /\ queue = <<>>
     /\ executed = {}
     /\ submitted = 0
     /\ conn = ConnOpen
     /\ reqs = <<>>
     /\ wbuf = <<>>
     /\ wire = <<>>
     /\ store = [k \in {} |-> NoVal]
     /\ engine_file = NoFile
     /\ proc = NoProc
     /\ runs = 0
     /\ unlink_failed = {}
     /\ kv = NoStore
     /\ kv_dir = EmptyDir
     /\ kv_ret = NoCall
     /\ kv_nops = 0

(* --------------------------------- get --------------------------------- *)

\* KvStore::get up to the index lookup: None when the key has no entry
GetStart(t, k) ==
  /\ th[t].pc = "idle"
  /\ MayProceed("get")
  /\ LET locked == mutex # NoThread
         g == [Idle EXCEPT !.op = "get", !.key = k,
                           !.exp = MapGet(map, k),
                           !.ovl = locked,
                           !.same = locked /\ th[mutex].key = k,
                           !.cmp = locked /\ th[mutex].pc \in CompactPcs,
                           !.held = locked]
     IN IF k \in DOMAIN index
        THEN /\ th' = [th EXCEPT ![t] =
                  [g EXCEPT !.cp = index[k],
                            !.pc = IF index[k].gen \in readers[t]
                                   THEN "get_read" ELSE "get_open"]]
             /\ ret' = Idle
        ELSE /\ ret' = Returned(g, ResNone)
             /\ UNCHANGED th
  /\ UNCHANGED <<wrote, opened, pool_vars, serve_vars, main_vars, fault_vars, kv_vars>>
  /\ UNCHANGED <<files, index, writer, cur_gen, uncompacted, safe_point,
                 wreaders, readers, mutex, comp, map, nops>>

\* read_and, the cache miss: File::open of <gen>.log
GetOpen(t) ==
  /\ th[t].pc = "get_open"
  /\ LET gen == th[t].cp.gen
     IN IF gen \in Linked(files)
        THEN /\ readers' = [readers EXCEPT ![t] = @ \cup {gen}]
             /\ th' = [th EXCEPT ![t].pc = "get_read"]
             /\ ret' = Idle
        ELSE /\ ret' = Returned(th[t], ResErr("Io"))
             /\ th' = [th EXCEPT ![t] = Idle]
             /\ UNCHANGED readers
  /\ UNCHANGED <<wrote, opened, pool_vars, serve_vars, main_vars, fault_vars, kv_vars>>
  /\ UNCHANGED <<files, index, writer, cur_gen, uncompacted, safe_point,
                 wreaders, mutex, comp, map, nops>>

\* the result of get for the command read_command returned
GetResult(c) ==
  CASE c.op = "Set" -> ResSome(c.value)
    [] c.op = "Remove" -> ResErr("UnexpectedCommandType")
    [] OTHER -> ResErr("Serde")

\* read_and on the open handle: seek, take(len), decode
GetRead(t) ==
  /\ th[t].pc = "get_read"
  /\ LET cp == th[t].cp
     IN ret' = Returned(th[t], GetResult(ReadAt(files[cp.gen], cp.pos, cp.len)))
  /\ th' = [th EXCEPT ![t] = Idle]
  /\ UNCHANGED <<wrote, opened, pool_vars, serve_vars, main_vars, fault_vars, kv_vars>>
  /\ UNCHANGED <<files, index, writer, cur_gen, uncompacted, safe_point,
                 wreaders, readers, mutex, comp, map, nops>>

(* --------------------------------- set --------------------------------- *)

\* KvStore::set: writer.lock(), then KvStoreWriter::set up to the flush.
\* cp.pos keeps `position`, the offset of the record
SetStart(t, k) ==
  /\ th[t].pc = "idle"
  /\ MayProceed("set")
  /\ nops < MaxOps
  /\ LET v == [id |-> nops + 1, len |-> ValueLen(k)]
         c == CommandSet(k, v)
     IN /\ files' = AppendFlush(files, writer.gen, c)
        /\ writer' = [writer EXCEPT !.pos = @ + EncLen(c)]
        /\ th' = NoteStart([th EXCEPT ![t] =
                   [Idle EXCEPT !.pc = "set_index", !.op = "set", !.key = k,
                                !.val = v, !.cp = CommandPos(0, writer.pos, 0)]], t, k)
  /\ mutex' = t
  /\ nops' = nops + 1
  /\ wrote' = [wrote EXCEPT ![k] = @ \cup {[id |-> nops + 1, len |-> ValueLen(k)]}]
  /\ ret' = Idle
  /\ UNCHANGED <<index, cur_gen, uncompacted, safe_point, wreaders, readers,
                 comp, map, opened>>
  /\ UNCHANGED <<pool_vars, serve_vars, main_vars, fault_vars, kv_vars>>

\* the superseded bytes a set of key adds to uncompacted
SetUncompacted(idx, unc, key) ==
  unc + (IF key \in DOMAIN idx THEN idx[key].len ELSE 0)

\* the entry with the offset taken after the write instead of before it
SetEntryAfterWrite(gen, position, cur_pos) == CommandPos(gen, cur_pos, cur_pos - position)

\* the index entry a set inserts
SetEntry(gen, position, cur_pos) == CommandPos(gen, position, cur_pos - position)

\* a set that never compacts
MustCompactNever(unc) == FALSE

\* whether set goes on to compact
MustCompact(unc) == unc > COMPACTION_THRESHOLD

\* KvStoreWriter::set from the index insert on: it returns, releasing the
\* mutex, unless the threshold is passed
SetIndex(t) ==
  /\ th[t].pc = "set_index"
  /\ LET k == th[t].key
         unc == SetUncompacted(index, uncompacted, k)
     IN /\ uncompacted' = unc
        /\ index' = IndexInsert(index, k, SetEntry(cur_gen, th[t].cp.pos, writer.pos))
        /\ IF MustCompact(unc)
           THEN /\ th' = NoteCompact([th EXCEPT ![t].pc = "compact", ![t].ran = TRUE])
                /\ ret' = Idle
                /\ UNCHANGED <<mutex, map>>
           ELSE /\ ret' = Returned(th[t], ResOk)
                /\ th' = NoteUnlock([th EXCEPT ![t] = Idle])
                /\ mutex' = NoThread
                /\ map' = MapSet(map, k, th[t].val)
  /\ UNCHANGED <<wrote, opened, pool_vars, serve_vars, main_vars, fault_vars, kv_vars>>
  /\ UNCHANGED <<files, writer, cur_gen, safe_point, wreaders, readers, comp, nops>>

(* ------------------------------- compact ------------------------------- *)

\* the generation compact() writes the live records to
CompactionGen(gen) == gen + 1

\* compact(): the listing, the new generation and its file
CompactStart(t) ==
  /\ th[t].pc = "compact"
  /\ LET compaction_gen == CompactionGen(cur_gen)
     IN /\ comp' = [gens |-> sorted_gen_list(files), gen |-> compaction_gen,
                    cur_pos |-> 0, last |-> 0]
        /\ cur_gen' = compaction_gen
        /\ files' = new_log_file(files, compaction_gen)
  /\ th' = [th EXCEPT ![t].pc = "compact_copy"]
  /\ ret' = Idle
  /\ UNCHANGED <<wrote, opened, pool_vars, serve_vars, main_vars, fault_vars, kv_vars>>
  /\ UNCHANGED <<index, writer, uncompacted, safe_point, wreaders, readers,
                 mutex, map, nops>>

\* a copy that moves no byte
CopyNothing(f, pos, len) == Junk(0)

\* what io::copy moves from the len bytes at pos of f: the command when all
\* its bytes are there, else the bytes there are
CopyAt(f, pos, len) == ReadAt(f, pos, len)

\* one turn of the loop of compact(): copy the record of the next entry into
\* the compaction file and replace the entry
CompactCopy(t) ==
  /\ th[t].pc = "compact_copy"
  /\ NextKeys(index, comp.last) # {}
  /\ LET k == NextKey(index, comp.last)
         e == index[k]
     IN IF e.gen \notin wreaders /\ e.gen \notin Linked(files)
        THEN \* File::open fails: compact and set return the error
             /\ ret' = Returned(th[t], ResErr("Io"))
             /\ th' = NoteUnlock([th EXCEPT ![t] = Idle])
             /\ mutex' = NoThread
             /\ comp' = NoComp
             /\ UNCHANGED <<files, index, wreaders>>
        ELSE LET c == CopyAt(files[e.gen], e.pos, e.len)
                 len == EncLen(c)
             IN /\ files' = CopyInto(files, comp.gen, c)
                /\ index' = IndexInsert(index, k, CommandPos(comp.gen, comp.cur_pos, len))
                /\ comp' = [comp EXCEPT !.cur_pos = @ + len, !.last = KeyRank(k)]
                /\ wreaders' = wreaders \cup {e.gen}
                /\ ret' = Idle
                /\ UNCHANGED <<th, mutex>>
  /\ UNCHANGED <<wrote, opened, pool_vars, serve_vars, main_vars, fault_vars, kv_vars>>
  /\ UNCHANGED <<writer, cur_gen, uncompacted, safe_point, readers, map, nops>>

\* after the loop: flush the compaction writer, which becomes the append stream
CompactFlush(t) ==
  /\ th[t].pc = "compact_copy"
  /\ NextKeys(index, comp.last) = {}
  /\ files' = Flush(files, comp.gen)
  /\ writer' = [gen |-> comp.gen, pos |-> comp.cur_pos]
  /\ th' = [th EXCEPT ![t].pc = "compact_publish"]
  /\ ret' = Idle
  /\ UNCHANGED <<wrote, opened, pool_vars, serve_vars, main_vars, fault_vars, kv_vars>>
  /\ UNCHANGED <<index, cur_gen, uncompacted, safe_point, wreaders, readers,
                 mutex, comp, map, nops>>

\* close_stale_handler: the handles of the generations below the safe point go
close_stale_handler(rd, sp) == {g \in rd : g >= sp}

\* safe_point.store(compaction_gen), then the writer's reader drops its stale
\* handles
CompactPublish(t) ==
  /\ th[t].pc = "compact_publish"
  /\ safe_point' = comp.gen
  /\ wreaders' = close_stale_handler(wreaders, comp.gen)
  /\ files' = Reclaim(files, AllHeld(readers, wreaders'))
  /\ th' = [th EXCEPT ![t].pc = "compact_unlink"]
  /\ ret' = Idle
  /\ UNCHANGED <<wrote, opened, pool_vars, serve_vars, main_vars, fault_vars, kv_vars>>
  /\ UNCHANGED <<index, writer, cur_gen, uncompacted, readers, mutex, comp,
                 map, nops>>

\* fs::remove_file of the next generation of the listing
CompactUnlink(t) ==
  /\ th[t].pc = "compact_unlink"
  /\ comp.gens # <<>>
  /\ files' = Reclaim(Unlink(files, Head(comp.gens)), AllHeld(readers, wreaders))
  /\ comp' = [comp EXCEPT !.gens = Tail(@)]
  /\ ret' = Idle
  /\ UNCHANGED <<wrote, opened, pool_vars, serve_vars, main_vars, fault_vars, kv_vars>>
  /\ UNCHANGED <<index, writer, cur_gen, uncompacted, safe_point, wreaders,
                 readers, mutex, th, map, nops>>

\* the end of compact() and of the set that ran it
CompactFinish(t) ==
  /\ th[t].pc = "compact_unlink"
  /\ comp.gens = <<>>
  /\ uncompacted' = 0
  /\ comp' = NoComp
  /\ ret' = Returned(th[t], ResOk)
  /\ th' = NoteUnlock([th EXCEPT ![t] = Idle])
  /\ mutex' = NoThread
  /\ map' = MapSet(map, th[t].key, th[t].val)
  /\ UNCHANGED <<wrote, opened, pool_vars, serve_vars, main_vars, fault_vars, kv_vars>>
  /\ UNCHANGED <<files, index, writer, cur_gen, safe_point, wreaders, readers, nops>>

(* -------------------------------- remove ------------------------------- *)

\* KvStore::remove of a key the index has: writer.lock(), index.remove.
\* cp keeps old_cmd, the entry removed
RemoveStart(t, k) ==
  /\ th[t].pc = "idle"
  /\ MayProceed("remove")
  /\ nops < MaxOps
  /\ k \in DOMAIN index
  /\ index' = IndexRemove(index, k)
  /\ th' = NoteStart([th EXCEPT ![t] =
             [Idle EXCEPT !.pc = "rm_write", !.op = "remove", !.key = k,
                          !.cp = index[k], !.had = k \in DOMAIN map]], t, k)
  /\ mutex' = t
  /\ nops' = nops + 1
  /\ ret' = Idle
  /\ UNCHANGED <<wrote, opened, pool_vars, serve_vars, main_vars, fault_vars, kv_vars>>
  /\ UNCHANGED <<files, writer, cur_gen, uncompacted, safe_point, wreaders,
                 readers, comp, map>>

\* a remove that logs its Remove record before it looks the key up
RemoveMissingLogged(t, k) ==
  /\ th[t].pc = "idle"
  /\ MayProceed("remove")
  /\ k \notin DOMAIN index
  /\ files' = AppendFlush(files, writer.gen, CommandRm(k))
  /\ writer' = [writer EXCEPT !.pos = @ + EncLen(CommandRm(k))]
  /\ ret' = Returned([Idle EXCEPT !.op = "remove", !.key = k,
                                   !.had = k \in DOMAIN map],
                      ResErr("KeyNotFound"))
  /\ UNCHANGED <<index, cur_gen, uncompacted, safe_point, wreaders, readers,
                 mutex, comp, th, map, wrote, opened, nops>>
  /\ UNCHANGED <<pool_vars, serve_vars, main_vars, fault_vars, kv_vars>>

\* KvStore::remove of a key the index does not have: Err(KeyNotFound)
RemoveMissing(t, k) ==
  /\ th[t].pc = "idle"
  /\ MayProceed("remove")
  /\ k \notin DOMAIN index
  /\ ret' = Returned([Idle EXCEPT !.op = "remove", !.key = k,
                                   !.had = k \in DOMAIN map],
                      ResErr("KeyNotFound"))
  /\ UNCHANGED <<wrote, opened, pool_vars, serve_vars, main_vars, fault_vars, kv_vars>>
  /\ UNCHANGED <<files, index, writer, cur_gen, uncompacted, safe_point,
                 wreaders, readers, mutex, comp, th, map, nops>>

\* what a remove adds to uncompacted
RemoveUncompacted(unc, old_cmd, c) == unc + old_cmd.len

\* KvStoreWriter::remove after index.remove: the Remove record is appended
\* and flushed, then the call returns
RemoveWrite(t) ==
  /\ th[t].pc = "rm_write"
  /\ LET c == CommandRm(th[t].key)
     IN /\ files' = AppendFlush(files, writer.gen, c)
        /\ writer' = [writer EXCEPT !.pos = @ + EncLen(c)]
        /\ uncompacted' = RemoveUncompacted(uncompacted, th[t].cp, c)
  /\ ret' = Returned(th[t], ResOk)
  /\ th' = NoteUnlock([th EXCEPT ![t] = Idle])
  /\ mutex' = NoThread
  /\ map' = MapRemove(map, th[t].key)
  /\ UNCHANGED <<wrote, opened, pool_vars, serve_vars, main_vars, fault_vars, kv_vars>>
  /\ UNCHANGED <<index, cur_gen, safe_point, wreaders, readers, comp, nops>>

(* ----------------------------- drop and open --------------------------- *)

\* every clone is dropped between calls, and the directory is opened again
Reopen ==
  /\ \A t \in Threads : th[t].pc = "idle"
  /\ mutex = NoThread
  /\ nops < MaxOps
  /\ opened' = Linked(files)
  /\ LET o == open(Reclaim(files, {}))
     IN /\ files' = o.files
        /\ index' = o.index
        /\ writer' = o.writer
        /\ cur_gen' = o.cur_gen
        /\ uncompacted' = o.uncompacted
  /\ safe_point' = 0
  /\ wreaders' = {}
  /\ readers' = [t \in Threads |-> {}]
  /\ th' = [t \in Threads |-> Idle]
  /\ ret' = [Idle EXCEPT !.op = "open"]
  /\ nops' = nops + 1
  /\ UNCHANGED <<mutex, comp, map, wrote>>
  /\ UNCHANGED <<pool_vars, serve_vars, main_vars, fault_vars, kv_vars>>

(* --------------------------------- Next -------------------------------- *)

Next ==
  \/ \E t \in Threads, k \in Keys : GetStart(t, k)
  \/ \E t \in Threads : GetOpen(t)
  \/ \E t \in Threads : GetRead(t)
  \/ \E t \in Threads, k \in Keys : SetStart(t, k)
  \/ \E t \in Threads : SetIndex(t)
  \/ \E t \in Threads : CompactStart(t)
  \/ \E t \in Threads : CompactCopy(t)
  \/ \E t \in Threads : CompactFlush(t)
  \/ \E t \in Threads : CompactPublish(t)
  \/ \E t \in Threads : CompactUnlink(t)
  \/ \E t \in Threads : CompactFinish(t)
  \/ \E t \in Threads, k \in Keys : RemoveStart(t, k)
  \/ \E t \in Threads, k \in Keys : RemoveMissing(t, k)
  \/ \E t \in Threads : RemoveWrite(t)
  \/ Reopen

Spec == Init /\ [][Next]_vars

(* ------------------------------- properties ---------------------------- *)

\* the step just taken returned a get
GetReturned == ret.op = "get" /\ ret.res # Pending

\* C1: a get that ran with no set or remove in progress returns what the
\* plain map of lib.rs returns for the calls made so far: Some(M(k)) for a
\* key of M, None for any other key
C1_GetAgreesWithMap ==
  (GetReturned /\ ~ret.ovl) => ret.res = ret.exp

\* such a get returned a value after two compactions had run
C1_Witness ==
  /\ GetReturned /\ ~ret.ovl
  /\ ret.res.t = "Some"
  /\ opened = {}
  /\ safe_point >= 3

\* the command an index entry refers to, as a read of the files finds it
EntryCommand(k) == ReadAt(files[index[k].gen], index[k].pos, index[k].len)

\* C2: after the engine is dropped and the directory opened again, the index
\* has exactly the keys of the plain map and each entry refers to the Set
\* record of the key's latest value
C2_ReopenRebuildsMap ==
  ret.op = "open" =>
    /\ DOMAIN index = DOMAIN map
    /\ \A k \in DOMAIN index : EntryCommand(k) = CommandSet(k, map[k])

\* a reopen that found a compaction's output and rebuilt a key from it
C2_Witness ==
  /\ ret.op = "open"
  /\ nops > 0
  /\ 1 \notin opened
  /\ DOMAIN map # {}

\* C3: a get of a key that no set or remove touches while a compaction runs
\* returns the key's value, never an error and never None
C3_GetDuringCompaction ==
  (GetReturned /\ ret.cmp /\ ~ret.same /\ ret.exp.t = "Some") => ret.res = ret.exp

\* the newest of a set of values
Newest(V) == CHOOSE v \in V : \A w \in V : w.id <= v.id

\* C4: every value a get returns is one a set was called with for that key,
\* and a get of a live key that starts after the last set returned returns
\* the value of that last set
C4_ObservedValuesWereSet ==
  GetReturned =>
    /\ ret.res.t = "Some" => ret.res.v \in wrote[ret.key]
    /\ (~ret.ovl /\ ret.exp.t = "Some") => ret.res = ResSome(Newest(wrote[ret.key]))

\* the writer has set one key three times and nothing else, and a get that
\* started after the third set returned observed a value
C4_Witness ==
  /\ GetReturned /\ ~ret.ovl /\ ret.res.t = "Some"
  /\ nops = 3
  /\ Cardinality(wrote[ret.key]) = 3

\* a reader observed a value while a set of its key was in progress
C4_WitnessConcurrent ==
  /\ GetReturned /\ ret.same /\ ret.res.t = "Some"
  /\ Cardinality(wrote[ret.key]) >= 2

\* C5: a get returns what the plain map held for its key when it started,
\* unless a set or remove of that key was in progress during the get
C5_Linearisable ==
  (GetReturned /\ ~ret.same) => ret.res = ret.exp

\* the log as open replays it: the records of the linked files, by generation
RECURSIVE LogOf(_, _)
LogOf(F, gens) ==
  IF gens = <<>> THEN <<>> ELSE F[Head(gens)].recs \o LogOf(F, Tail(gens))

\* the kind of the last command of key k in the log, "None" without any
LastOp(k) ==
  LET log == LogOf(files, sorted_gen_list(files))
      I == {i \in 1..Len(log) : log[i].key = k}
  IN IF I = {} THEN "None"
     ELSE log[CHOOSE i \in I : \A j \in I : j <= i].op

RemoveReturned == ret.op = "remove" /\ ret.res # Pending

\* C6: remove returns Ok exactly when the key's latest successful write is a
\* set, and Err(KeyNotFound) otherwise; after it the key has no entry; and
\* the index only ever holds keys whose last command in the log is a Set
C6_RemoveIffPresent ==
  /\ RemoveReturned =>
       /\ ret.res = ResOk <=> ret.had
       /\ ret.res # ResOk => ret.res = ResErr("KeyNotFound")
       /\ ret.key \notin DOMAIN index
  /\ \A k \in DOMAIN index : LastOp(k) = "Set"

\* the second remove of a key that was set and removed: Err(KeyNotFound)
C6_Witness ==
  /\ RemoveReturned
  /\ ret.res = ResErr("KeyNotFound")
  /\ LastOp(ret.key) = "Remove"

\* a remove of key k is called in this step
RemoveCalled(k) ==
  \/ \E t \in Threads :
       th[t].pc = "idle" /\ th'[t].pc = "rm_write" /\ th'[t].key = k
  \/ /\ ret'.op = "remove" /\ ret'.res # Pending /\ ret'.key = k
     /\ \A t \in Threads : th[t].pc # "rm_write"

\* C7: a remove of a key that has no index entry returns Err(KeyNotFound) in
\* a step that appends nothing and leaves the writer position, cur_gen,
\* uncompacted and the index as they were, and starts no compaction
C7_RemoveMissingChangesNothing ==
  [][\A k \in Keys :
       (RemoveCalled(k) /\ k \notin DOMAIN index) =>
          /\ ret'.op = "remove" /\ ret'.res = ResErr("KeyNotFound")
          /\ UNCHANGED <<files, index, writer, cur_gen, uncompacted, safe_point,
                         comp, mutex, map>>]_vars

\* a remove of a missing key returned with records in the log
C7_Witness ==
  /\ RemoveReturned
  /\ ret.res = ResErr("KeyNotFound")
  /\ writer.pos > 0
  /\ uncompacted > 0

\* C8: every step of a get is enabled whoever holds the writer mutex, and no
\* set or remove can start while a thread holds it
C8_GetNeverWaits ==
  /\ \A t \in Threads :
       /\ th[t].pc = "idle" => \A k \in Keys : ENABLED GetStart(t, k)
       /\ th[t].pc = "get_open" => ENABLED GetOpen(t)
       /\ th[t].pc = "get_read" => ENABLED GetRead(t)
  /\ mutex # NoThread =>
       \A t \in Threads, k \in Keys :
          /\ ~ENABLED SetStart(t, k)
          /\ ~ENABLED RemoveStart(t, k)
          /\ ~ENABLED RemoveMissing(t, k)

\* a get ran from its index lookup to its value while one thread held the
\* mutex all along, running a compaction
C8_Witness ==
  /\ GetReturned /\ ret.held /\ ret.cmp
  /\ ret.res.t = "Some"
  /\ mutex # NoThread

RECURSIVE SumOver(_, _)
SumOver(S, f) ==
  IF S = {} THEN 0
  ELSE LET x == CHOOSE y \in S : TRUE IN f[x] + SumOver(S \ {x}, f)

\* the bytes of the <gen>.log files of the directory
DirSize == SumOver(Linked(files), [g \in Linked(files) |-> files[g].flushed])

\* the bytes of the records the index refers to
LiveSize == SumOver(DOMAIN index, [k \in DOMAIN index |-> index[k].len])

\* C9: when a set returns from the compaction it ran, the log files of the
\* directory hold as many bytes as the records the index refers to
C9_DirSizeIsLiveSize ==
  (ret.op = "set" /\ ret.ran /\ ret.res = ResOk) => DirSize = LiveSize

\* a compaction with two live keys has returned
C9_Witness ==
  /\ ret.op = "set" /\ ret.ran /\ ret.res = ResOk
  /\ Cardinality(DOMAIN index) = 2

MaxOf(S) == CHOOSE x \in S : \A y \in S : y <= x

\* C10: open takes the generation after the largest one in the directory (1
\* in an empty directory) and starts an empty file for it; no file the open
\* found is written afterwards, and the writer and every compaction use
\* larger generations than the open found
C10_OpenFreshGeneration ==
  /\ [](/\ ret.op = "open" =>
             /\ cur_gen = (IF opened = {} THEN 1 ELSE MaxOf(opened) + 1)
             /\ files[cur_gen] = NewFile
             /\ writer = [gen |-> cur_gen, pos |-> 0]
        /\ \A g \in opened :
             /\ g < cur_gen /\ g < writer.gen
             /\ comp.gen # 0 => g < comp.gen)
  /\ [][\A g \in opened' :
          (g \in DOMAIN files /\ g \in DOMAIN files') => files'[g] = files[g]
                                                        \/ files'[g] = Unlink(files, g)[g]]_vars

\* a compaction ran after an open that found generation 2 without generation 1
C10_Witness ==
  /\ opened # {}
  /\ 1 \notin opened
  /\ safe_point > MaxOf(opened)

(* ===================== the shared-queue worker pool ===================== *)

\* bounds: the largest argument of new, the tasks submitted in one behaviour,
\* and the nested drops of a TaskReceiver the stack of a thread has room for
MaxThreads == 2
MaxTasks == 3
StackDepth == 2

\* every thread a pool can come to spawn: the workers of new and one
\* replacement for each task
WorkerIds == 1..(MaxThreads + MaxTasks)

\* a task: a closure that returns or panics when called
Task(id, panics) == [id |-> id, panics |-> panics]
NoTask == Task(0, FALSE)

\* a worker thread in run_task: receiving, inside task(), or unwinding from
\* the panic of its task with its TaskReceiver being dropped; "dead" when the
\* thread is gone.  closed: recv() has returned Err to it.  depth: the drops
\* of TaskReceiver nested on its stack
Worker(pc) == [pc |-> pc, task |-> NoTask, closed |-> FALSE, depth |-> 0]

\* the threads holding a Receiver of the channel
Receivers(ws) == {w \in 1..Len(ws) : ws[w].pc \in {"recv", "run", "unwinding"}}

\* the Sender of the channel exists: new is running or the pool is alive
SenderAlive(st) == st \in {"new", "alive"}

\* the channel is bounded by one message
CanSendBounded(q) == Len(q) < 1

\* channel::unbounded(): a send never waits for room
CanSend(q) == TRUE

\* a send that never fails
SendFailsNever(st, ws) == FALSE

\* Sender::send fails when every Receiver is gone; during new the rx of new
\* is one of them
SendFails(st, ws) == st # "new" /\ Receivers(ws) = {}

\* SharedQueueThreadPool::new(n): the channel is created
PoolNew(n) ==
  /\ pool = "none"
  /\ pool' = "new"
  /\ threads' = n
  /\ UNCHANGED <<workers, queue, executed, submitted>>
  /\ UNCHANGED <<kvs_vars, serve_vars, main_vars, fault_vars, kv_vars>>

\* one turn of the loop of new: a worker thread is spawned with a clone of rx
NewSpawn ==
  /\ pool = "new"
  /\ Len(workers) < threads
  /\ workers' = Append(workers, Worker("recv"))
  /\ UNCHANGED <<pool, threads, queue, executed, submitted>>
  /\ UNCHANGED <<kvs_vars, serve_vars, main_vars, fault_vars, kv_vars>>

\* one turn of the loop of new: thread::Builder::spawn fails and new returns
\* the error; tx and rx are dropped, the workers spawned before stay
NewSpawnFails ==
  /\ pool = "new"
  /\ Len(workers) < threads
  /\ pool' = "failed"
  /\ UNCHANGED <<threads, workers, queue, executed, submitted>>
  /\ UNCHANGED <<kvs_vars, serve_vars, main_vars, fault_vars, kv_vars>>

\* the loop of new is over: rx is dropped and the pool returned
NewReturns ==
  /\ pool = "new"
  /\ Len(workers) = threads
  /\ pool' = "alive"
  /\ UNCHANGED <<threads, workers, queue, executed, submitted>>
  /\ UNCHANGED <<kvs_vars, serve_vars, main_vars, fault_vars, kv_vars>>

\* SharedQueueThreadPool::spawn(job): send on the channel; expect() panics in
\* the caller when the send fails
PoolSpawn(panics) ==
  /\ pool = "alive"
  /\ submitted < MaxTasks
  /\ CanSend(queue)
  /\ submitted' = submitted + 1
  /\ IF SendFails(pool, workers)
     THEN /\ pool' = "panicked"
          /\ UNCHANGED queue
     ELSE /\ queue' = Append(queue, Task(submitted + 1, panics))
          /\ UNCHANGED pool
  /\ UNCHANGED <<threads, workers, executed>>
  /\ UNCHANGED <<kvs_vars, serve_vars, main_vars, fault_vars, kv_vars>>

\* the pool is dropped, and tx with it
PoolDrop ==
  /\ pool = "alive"
  /\ pool' = "dropped"
  /\ UNCHANGED <<threads, workers, queue, executed, submitted>>
  /\ UNCHANGED <<kvs_vars, serve_vars, main_vars, fault_vars, kv_vars>>

\* run_task: recv() returns the next task of the queue
WorkerRecv(w) ==
  /\ w \in 1..Len(workers)
  /\ workers[w].pc = "recv"
  /\ queue # <<>>
  /\ workers' = [workers EXCEPT ![w].pc = "run", ![w].task = Head(queue)]
  /\ queue' = Tail(queue)
  /\ UNCHANGED <<pool, threads, executed, submitted>>
  /\ UNCHANGED <<kvs_vars, serve_vars, main_vars, fault_vars, kv_vars>>

\* where run_task goes after recv() returned Err: the match arm logs and the
\* loop goes on
AfterClosed == "recv"

\* run_task: the queue is empty and the Sender gone, recv() returns Err
WorkerRecvClosed(w) ==
  /\ w \in 1..Len(workers)
  /\ workers[w].pc = "recv"
  /\ queue = <<>>
  /\ ~SenderAlive(pool)
  /\ workers' = [workers EXCEPT ![w].pc = AfterClosed, ![w].closed = TRUE]
  /\ UNCHANGED <<pool, threads, queue, executed, submitted>>
  /\ UNCHANGED <<kvs_vars, serve_vars, main_vars, fault_vars, kv_vars>>

\* run_task: task() returns, or panics and the thread starts to unwind
WorkerRun(w) ==
  /\ w \in 1..Len(workers)
  /\ workers[w].pc = "run"
  /\ executed' = executed \cup {workers[w].task.id}
  /\ workers' = [workers EXCEPT ![w].pc = IF workers[w].task.panics
                                           THEN "unwinding" ELSE "recv",
                                 ![w].task = NoTask]
  /\ UNCHANGED <<pool, threads, queue, submitted>>
  /\ UNCHANGED <<kvs_vars, serve_vars, main_vars, fault_vars, kv_vars>>

\* a drop that spawns nothing
NoReplacement(ws, w) == [ws EXCEPT ![w].pc = "dead", ![w].depth = 0]

\* TaskReceiver::drop in a panicking thread, the spawn succeeding: a new
\* thread runs run_task with the clone, and the panicking thread finishes
Replacement(ws, w) ==
  Append([ws EXCEPT ![w].pc = "dead", ![w].depth = 0], Worker("recv"))

DropSpawns(w) ==
  /\ w \in 1..Len(workers)
  /\ workers[w].pc = "unwinding"
  /\ workers' = Replacement(workers, w)
  /\ UNCHANGED <<pool, threads, queue, executed, submitted>>
  /\ UNCHANGED <<kvs_vars, serve_vars, main_vars, fault_vars, kv_vars>>

\* TaskReceiver::drop in a panicking thread, the spawn failing: the closure
\* comes back unused and is dropped, and with it the clone it holds, whose
\* drop runs nested in this one, in the same panicking thread.  A stack with
\* no room for one more drop ends the process
DropSpawnFails(w) ==
  /\ w \in 1..Len(workers)
  /\ workers[w].pc = "unwinding"
  /\ IF workers[w].depth < StackDepth
     THEN /\ workers' = [workers EXCEPT ![w].depth = @ + 1]
          /\ UNCHANGED pool
     ELSE /\ workers' = [v \in 1..Len(workers) |-> Worker("dead")]
          /\ pool' = "aborted"
  /\ UNCHANGED <<threads, queue, executed, submitted>>
  /\ UNCHANGED <<kvs_vars, serve_vars, main_vars, fault_vars, kv_vars>>

\* the steps of thread w
WorkerStep(w) ==
  \/ WorkerRecv(w)
  \/ WorkerRecvClosed(w)
  \/ WorkerRun(w)
  \/ DropSpawns(w)
  \/ DropSpawnFails(w)

PoolNext ==
  \/ \E n \in 0..MaxThreads : PoolNew(n)
  \/ NewSpawn
  \/ NewSpawnFails
  \/ NewReturns
  \/ \E panics \in BOOLEAN : PoolSpawn(panics)
  \/ PoolDrop
  \/ \E w \in WorkerIds : WorkerRecv(w)
  \/ \E w \in WorkerIds : WorkerRecvClosed(w)
  \/ \E w \in WorkerIds : WorkerRun(w)
  \/ \E w \in WorkerIds : DropSpawns(w)
  \/ \E w \in WorkerIds : DropSpawnFails(w)

PoolSpec == Init /\ [][PoolNext]_vars

\* the scheduler runs every thread that can take a step
PoolFairSpec ==
  PoolSpec /\ \A w \in WorkerIds : WF_vars(WorkerStep(w))


(* -------------------------- worker pool properties ---------------------- *)

\* the workers in the loop of run_task, and those being replaced
Running(ws) == {w \in 1..Len(ws) : ws[w].pc \in {"recv", "run"}}
Unwinding(ws) == {w \in 1..Len(ws) : ws[w].pc = "unwinding"}

\* new(threads) returned the pool and the process has not been ended
PoolBuilt == pool \in {"alive", "dropped", "panicked"}

C12_WorkersExitOnClose ==
  \A w \in 1..Len(workers) : workers[w].closed => w \notin Running(workers)

\* C13 as stated: spawn on an alive pool can always be taken and never panics
C13_SpawnNeverFails ==
  /\ (pool = "alive" /\ submitted < MaxTasks) =>
        \A panics \in BOOLEAN : ENABLED PoolSpawn(panics)
  /\ pool # "panicked"

\* C13, amended: spawn on an alive pool can always be taken, and it panics
\* only in a pool built with threads = 0
C13_SpawnNeverFailsWithWorkers ==
  /\ (pool = "alive" /\ submitted < MaxTasks) =>
        \A panics \in BOOLEAN : ENABLED PoolSpawn(panics)
  /\ pool = "panicked" => threads = 0
  /\ (pool = "alive" /\ threads >= 1) => ~SendFails(pool, workers)

\* the last spawn was taken with two tasks waiting in the queue and a
\* panicked task behind
C13_Witness ==
  /\ pool = "alive" /\ threads >= 1
  /\ submitted = MaxTasks
  /\ Len(queue) >= 2
  /\ queue[Len(queue)].id = MaxTasks
  /\ \E w \in 1..Len(workers) : workers[w].pc = "dead"

\* the places where task i is: waiting in the queue, or in the hands of a
\* worker that is calling it
Queued(i) == {j \in 1..Len(queue) : queue[j].id = i}
Holding(i) == {w \in 1..Len(workers) : workers[w].pc = "run" /\ workers[w].task.id = i}

MaxReqs == 3
MaxVal == 2

\* a value sent with a Set request
Val(i) == [id |-> i, len |-> 1]

\* Request::Set / Get / Remove as decoded from the stream, and bytes that
\* decode to no Request
Request(op, key, value) == [op |-> op, key |-> key, value |-> value]
BadRequest == Request("Bad", NoKey, NoVal)

\* format!("{}", err): the Display of KvsError
Display(e) ==
  CASE e = "KeyNotFound" -> "Key not found"
    [] e = "UnexpectedCommandType" -> "Unexpected command type"
    [] OTHER -> e

\* every request is answered with a SetResponse
VariantSet(op) == "SetResponse"

\* the response type of each arm of the match in serve()
Variant(op) ==
  CASE op = "Set" -> "SetResponse"
    [] op = "Get" -> "GetResponse"
    [] op = "Remove" -> "RmResponse"

\* the response serve() builds from the engine's result: Ok with the result,
\* or Err with the error formatted
Respond(op, res) ==
  [variant |-> Variant(op),
   body |-> IF res.t = "Err" THEN [t |-> "Err", msg |-> Display(res.e)] ELSE res]

\* engine.set / get / remove: the verdict of the plain map, or an error of
\* the engine's own
EngineSet(M, k, v, fails) == IF fails THEN ResErr("Io") ELSE ResOk
EngineGet(M, k, fails) == IF fails THEN ResErr("Io") ELSE MapGet(M, k)
EngineRemove(M, k, fails) ==
  IF fails THEN ResErr("Io")
  ELSE IF k \in DOMAIN M THEN ResOk ELSE ResErr("KeyNotFound")

\* one turn of the loop of serve() up to to_writer: the request is decoded,
\* the engine called and the response written into the BufWriter
Handle(req, res) ==
  /\ conn.pc = "read"
  /\ Len(reqs) < MaxReqs
  /\ reqs' = Append(reqs, [req |-> req, res |-> res])
  /\ wbuf' = Append(wbuf, Respond(req.op, res))
  /\ conn' = [conn EXCEPT !.pc = "flush"]
  /\ UNCHANGED wire
  /\ UNCHANGED <<kvs_vars, pool_vars, main_vars, fault_vars, kv_vars>>

ServeSet(k, v, fails) ==
  /\ Handle(Request("Set", k, v), EngineSet(store, k, v, fails))
  /\ store' = IF fails THEN store ELSE MapSet(store, k, v)

ServeGet(k, fails) ==
  /\ Handle(Request("Get", k, NoVal), EngineGet(store, k, fails))
  /\ UNCHANGED store

ServeRemove(k, fails) ==
  /\ Handle(Request("Remove", k, NoVal), EngineRemove(store, k, fails))
  /\ store' = IF EngineRemove(store, k, fails) = ResOk THEN MapRemove(store, k) ELSE store

\* send_resp!: writer.flush() puts the response on the socket
ServeFlush ==
  /\ conn.pc = "flush"
  /\ wire' = wire \o wbuf
  /\ wbuf' = <<>>
  /\ conn' = [conn EXCEPT !.pc = "read"]
  /\ UNCHANGED <<reqs, store>>
  /\ UNCHANGED <<kvs_vars, pool_vars, main_vars, fault_vars, kv_vars>>

\* send_resp!: writer.flush() fails and `?` returns the error from serve()
ServeFlushFails ==
  /\ conn.pc = "flush"
  /\ wbuf' = <<>>
  /\ conn' = [pc |-> "done", end |-> "io"]
  /\ UNCHANGED <<reqs, wire, store>>
  /\ UNCHANGED <<kvs_vars, pool_vars, main_vars, fault_vars, kv_vars>>

\* the next item of request_reader is Err, the bytes decoding to no Request:
\* `request?` returns the error from serve()
ServeBadRequest ==
  /\ conn.pc = "read"
  /\ Len(reqs) < MaxReqs
  /\ reqs' = Append(reqs, [req |-> BadRequest, res |-> ResErr("Serde")])
  /\ conn' = [pc |-> "done", end |-> "decode"]
  /\ UNCHANGED <<wbuf, wire, store>>
  /\ UNCHANGED <<kvs_vars, pool_vars, main_vars, fault_vars, kv_vars>>

\* the next item of request_reader is Err, the read from the socket failing
ServeReadFails ==
  /\ conn.pc = "read"
  /\ conn' = [pc |-> "done", end |-> "io"]
  /\ UNCHANGED <<reqs, wbuf, wire, store>>
  /\ UNCHANGED <<kvs_vars, pool_vars, main_vars, fault_vars, kv_vars>>

\* request_reader is at the end of the stream: serve() returns Ok(())
ServeEof ==
  /\ conn.pc = "read"
  /\ conn' = [pc |-> "done", end |-> "eof"]
  /\ UNCHANGED <<reqs, wbuf, wire, store>>
  /\ UNCHANGED <<kvs_vars, pool_vars, main_vars, fault_vars, kv_vars>>

ServeNext ==
  \/ \E k \in Keys, i \in 1..MaxVal, fails \in BOOLEAN : ServeSet(k, Val(i), fails)
  \/ \E k \in Keys, fails \in BOOLEAN : ServeGet(k, fails)
  \/ \E k \in Keys, fails \in BOOLEAN : ServeRemove(k, fails)
  \/ ServeFlush
  \/ ServeFlushFails
  \/ ServeBadRequest
  \/ ServeReadFails
  \/ ServeEof

ServeSpec == Init /\ [][ServeNext]_vars

(* ----------------------------- serve properties ------------------------- *)

\* the responses written so far, flushed or not
Sent == wire \o wbuf

\* the requests that decoded
Decoded == SelectSeq(reqs, LAMBDA r : r.req.op # "Bad")

\* the response r answers the request q as the protocol has it: the variant
\* of the request, Ok with the engine's result or Err with a string
Answers(r, q) ==
  /\ r.variant = (CASE q.req.op = "Set" -> "SetResponse"
                    [] q.req.op = "Get" -> "GetResponse"
                    [] q.req.op = "Remove" -> "RmResponse")
  /\ IF q.res.t = "Err"
     THEN r.body.t = "Err" /\ r.body.msg \in STRING
     ELSE r.body = q.res

\* C14: the responses written on a connection answer the decoded requests
\* one for one and in order, each of the variant of its request, all of them
\* unless the connection failed with an I/O error; no request is read while a
\* response is unflushed; and a request the engine fails (KeyNotFound on a
\* Remove) is answered with Err(String) and leaves the connection serving
C14_OneResponsePerRequest ==
  /\ [](/\ Len(Sent) <= Len(Decoded)
        /\ conn.end # "io" => Len(Sent) = Len(Decoded)
        /\ Len(Decoded) - Len(Sent) <= 1
        /\ \A i \in 1..Len(Sent) : Answers(Sent[i], Decoded[i])
        /\ conn.pc = "read" => wbuf = <<>>
        /\ Len(wbuf) <= 1)
  /\ [][(reqs' # reqs /\ reqs'[Len(reqs')].req.op # "Bad")
          => /\ conn'.pc = "flush"
             /\ wbuf' = <<Respond(reqs'[Len(reqs')].req.op, reqs'[Len(reqs')].res)>>]_vars
  /\ [][(conn.pc = "flush" /\ conn'.pc = "done") => conn'.end = "io"]_vars

\* a Remove of a missing key was answered RmResponse::Err("Key not found")
\* and the request after it was answered too
C14_Witness ==
  /\ Len(wire) = 3
  /\ reqs[2].req.op = "Remove"
  /\ wire[2] = [variant |-> "RmResponse", body |-> [t |-> "Err", msg |-> "Key not found"]]
  /\ wire[3].variant = "GetResponse" /\ wire[3].body.t = "Some"
  /\ conn.pc = "read"

\* C15: a request that fails to decode is answered with an error response,
\* and serve() returns only at the end of the stream or on an I/O failure
C15_DecodeErrorAnswered ==
  /\ \A i \in 1..Len(reqs) :
       reqs[i].req.op = "Bad" => (Len(Sent) >= i /\ Sent[i].body.t = "Err")
  /\ conn.pc = "done" => conn.end \in {"eof", "io"}

(* ================== kvs-server: the choice of the engine ================ *)

\* bound: the times the server is started in one behaviour
MaxRuns == 2

\* enum Engine, and "none" for the None of Option<Engine>
Engines == {"Kvs", "Sled"}

\* what the engine file may hold when the server starts: what a run wrote,
\* the same names typed by hand, or something else
Contents == {"Kvs", "Sled", "kvs", "sled", "SLED", "kvs\n", "rocks", ""}

\* format!("{}", engine): the name of the variant
Format(engine) == engine

\* str::parse::<Engine>(): the variant whose name the string is, in any case
Parse(str) ==
  CASE str \in {"Kvs", "kvs", "KVS"} -> "Kvs"
    [] str \in {"Sled", "sled", "SLED"} -> "Sled"
    [] OTHER -> "none"

\* get_pre_engine: None without the file or when its content does not parse
get_pre_engine(file) == IF file = NoFile THEN "none" ELSE Parse(file)

\* a recorded engine and a flag disagree whenever they differ
InconsistentAlways(op, engine) == op # engine

\* main: the recorded engine is there and is not the one to run
Inconsistent(op, engine) == op # "none" /\ op # engine

\* cmd.engine.unwrap_or(DEFAULT_ENGINE)
DEFAULT_ENGINE == "Kvs"
UnwrapOr(engine) == IF engine = "none" THEN DEFAULT_ENGINE ELSE engine

\* the process is not there (any more)
Stopped == proc.pc \in {"none", "refused", "failed", "killed"}

\* kvs-server [--engine flag] is started: Command::from_args()
MainStart(flag) ==
  /\ Stopped
  /\ runs < MaxRuns
  /\ runs' = runs + 1
  /\ proc' = [pc |-> "pre", flag |-> flag, pre |-> "none", engine |-> flag,
              found |-> engine_file, code |-> 0]
  /\ UNCHANGED engine_file
  /\ UNCHANGED <<kvs_vars, pool_vars, serve_vars, fault_vars, kv_vars>>

\* get_pre_engine() returns Ok(op)
GetPreEngine ==
  /\ proc.pc = "pre"
  /\ proc' = [proc EXCEPT !.pc = "check", !.pre = get_pre_engine(engine_file)]
  /\ UNCHANGED <<engine_file, runs>>
  /\ UNCHANGED <<kvs_vars, pool_vars, serve_vars, fault_vars, kv_vars>>

\* get_pre_engine() returns Err, the file being unreadable: main exits with 1
GetPreEngineFails ==
  /\ proc.pc = "pre"
  /\ engine_file # NoFile
  /\ proc' = [proc EXCEPT !.pc = "failed", !.code = 1]
  /\ UNCHANGED <<engine_file, runs>>
  /\ UNCHANGED <<kvs_vars, pool_vars, serve_vars, fault_vars, kv_vars>>

\* the closure of main: cmd.engine defaults to op; exit(1) on the wrong engine
MainCheck ==
  /\ proc.pc = "check"
  /\ LET engine == IF proc.engine = "none" THEN proc.pre ELSE proc.engine
     IN proc' = IF Inconsistent(proc.pre, engine)
                THEN [proc EXCEPT !.pc = "refused", !.engine = engine, !.code = 1]
                ELSE [proc EXCEPT !.pc = "run", !.engine = engine]
  /\ UNCHANGED <<engine_file, runs>>
  /\ UNCHANGED <<kvs_vars, pool_vars, serve_vars, fault_vars, kv_vars>>

\* run(): the engine file is written with the name of the engine
RunWrite ==
  /\ proc.pc = "run"
  /\ engine_file' = Format(UnwrapOr(proc.engine))
  /\ proc' = [proc EXCEPT !.pc = "open", !.engine = UnwrapOr(proc.engine)]
  /\ UNCHANGED runs
  /\ UNCHANGED <<kvs_vars, pool_vars, serve_vars, fault_vars, kv_vars>>

\* run(): fs::write fails, before or after it truncated the file
RunWriteFails ==
  /\ proc.pc = "run"
  /\ engine_file' \in {engine_file, ""}
  /\ proc' = [proc EXCEPT !.pc = "failed", !.code = 1]
  /\ UNCHANGED runs
  /\ UNCHANGED <<kvs_vars, pool_vars, serve_vars, fault_vars, kv_vars>>

\* run(): the engine is opened and run_with_engine serves with it
RunOpen ==
  /\ proc.pc = "open"
  /\ proc' = [proc EXCEPT !.pc = "serving"]
  /\ UNCHANGED <<engine_file, runs>>
  /\ UNCHANGED <<kvs_vars, pool_vars, serve_vars, fault_vars, kv_vars>>

\* run(): KvStore::open, sled::open, the pool or the bind fails
RunOpenFails ==
  /\ proc.pc = "open"
  /\ proc' = [proc EXCEPT !.pc = "failed", !.code = 1]
  /\ UNCHANGED <<engine_file, runs>>
  /\ UNCHANGED <<kvs_vars, pool_vars, serve_vars, fault_vars, kv_vars>>

\* the serving process is ended from outside
ServerKilled ==
  /\ proc.pc = "serving"
  /\ proc' = [proc EXCEPT !.pc = "killed"]
  /\ UNCHANGED <<engine_file, runs>>
  /\ UNCHANGED <<kvs_vars, pool_vars, serve_vars, fault_vars, kv_vars>>

\* between runs the engine file is removed or edited by hand; the process
\* that ran before is history
FileEdited(c) ==
  /\ Stopped
  /\ runs < MaxRuns
  /\ engine_file' = c
  /\ engine_file' # engine_file
  /\ proc' = NoProc
  /\ UNCHANGED runs
  /\ UNCHANGED <<kvs_vars, pool_vars, serve_vars, fault_vars, kv_vars>>

MainNext ==
  \/ \E flag \in Engines \cup {"none"} : MainStart(flag)
  \/ GetPreEngine
  \/ GetPreEngineFails
  \/ MainCheck
  \/ RunWrite
  \/ RunWriteFails
  \/ RunOpen
  \/ RunOpenFails
  \/ ServerKilled
  \/ \E c \in Contents \cup {NoFile} : FileEdited(c)

MainSpec == Init /\ [][MainNext]_vars

(* ------------------------- engine selection properties ------------------ *)

\* the engine a file content records: R of the claim, "other" for a content
\* that names no engine
Recorded(c) ==
  CASE c = NoFile -> "none"
    [] c \in {"Kvs", "kvs"} -> "Kvs"
    [] c \in {"Sled", "sled", "SLED"} -> "Sled"
    [] OTHER -> "other"

\* the engine the server is to run with for the recorded engine R and the
\* flag F, "refuse" when it is not to start
Selected(R, F) ==
  IF F = "none" THEN (IF R = "none" THEN "Kvs" ELSE R)
  ELSE IF R = "none" \/ R = F THEN F ELSE "refuse"

\* C16: for every recorded engine R and flag F, the server serves only with
\* the engine the rule selects, the engine file then naming that engine; it
\* is refused exactly when F is given and differs from R, with exit code 1
\* and the engine file as it was found, and it then never gets to run()
C16_EngineSelection ==
  LET R == Recorded(proc.found)
      F == proc.flag
  IN (proc.pc # "none" /\ R # "other") =>
       /\ proc.pc \in {"run", "open", "serving", "killed"} =>
            /\ Selected(R, F) # "refuse"
            /\ UnwrapOr(proc.engine) = Selected(R, F)
       /\ proc.pc \in {"serving", "killed"} =>
            /\ proc.engine = Selected(R, F)
            /\ Recorded(engine_file) = proc.engine
       /\ proc.pc = "refused" <=> (proc.pc \notin {"pre", "check", "failed"}
                                    /\ Selected(R, F) = "refuse")
       /\ proc.pc = "refused" => (proc.code = 1 /\ engine_file = proc.found)

\* the server serves with sled, started without a flag where the file, edited
\* by hand after a refused start with --engine kvs, said "SLED"
C16_Witness ==
  /\ proc.pc = "serving"
  /\ proc.flag = "none"
  /\ proc.found = "SLED"
  /\ proc.engine = "Sled"
  /\ engine_file = "Sled"
  /\ runs = 2

(* ------------------- engine properties: log and index ------------------- *)

\* C17: in every state, also inside a compaction, each entry of the index
\* refers to bytes that are in its generation's file and decode to a Set
\* command of the entry's key
C17_IndexEntriesOnDisk ==
  \A k \in DOMAIN index :
     /\ index[k].gen \in DOMAIN files
     /\ index[k].pos + index[k].len <= files[index[k].gen].flushed
     /\ EntryCommand(k).op = "Set"
     /\ EntryCommand(k).key = k

\* a set is at its index insert in this step
SetInserts == \E t \in Threads : th[t].pc = "set_index"

\* C18: a step of set or remove that changes the index entry of a key finds
\* the record of that change already in the log file: the entry a set
\* inserts refers to flushed bytes holding its Set record, and the entry of
\* a key goes only when the last record of the key in the log is a Remove
C18_RecordBeforeIndexUpdate ==
  [][\A k \in Keys :
       /\ (k \in DOMAIN index /\ k \notin DOMAIN index') => LastOp(k) = "Remove"
       /\ (SetInserts /\ k \in DOMAIN index'
             /\ (k \notin DOMAIN index \/ index'[k] # index[k]))
            => /\ index'[k].pos + index'[k].len <= files[index'[k].gen].flushed
               /\ ReadAt(files[index'[k].gen], index'[k].pos, index'[k].len).op = "Set"]_vars

\* a set has returned from the compaction it ran
CompactionReturned == ret.op = "set" /\ ret.ran /\ ret.res = ResOk

\* C19: when a compaction has completed, with safe_point the generation it
\* wrote the live records to, cur_gen is the generation after that one and
\* the writer is at the start of its fresh empty file; the compaction output
\* is the only generation file older than cur_gen, every generation listed
\* before being unlinked
C19_TwoFreshGenerations ==
  CompactionReturned =>
    /\ cur_gen = safe_point + 1
    /\ writer = [gen |-> cur_gen, pos |-> 0]
    /\ cur_gen \in Linked(files) /\ files[cur_gen].recs = <<>>
    /\ {g \in Linked(files) : g < cur_gen} = {safe_point}

\* the bytes of the log files that no index entry refers to
DeadSize == DirSize - LiveSize

\* C20: when a set, a remove, a compaction or an open has completed,
\* uncompacted is the number of bytes in the generation files that the index
\* does not refer to
C20_UncompactedIsDeadSize ==
  (ret.op \in {"set", "remove", "open"} /\ ret.res \in {Pending, ResOk}
     /\ (ret.op = "open" <=> ret.res = Pending))
    => uncompacted = DeadSize

(* ------------------- engine properties: compaction ---------------------- *)

\* a set has returned Ok
SetReturnedOk == ret.op = "set" /\ ret.res = ResOk

\* C21: a set goes on to compact, before it returns and with the mutex held,
\* exactly when uncompacted exceeds COMPACTION_THRESHOLD after its index
\* insert, and the compaction leaves uncompacted at 0: whenever a set has
\* returned Ok uncompacted is at most the threshold; and the steps of a set
\* that does not compact change no generation, create no file and unlink none
C21_CompactionTrigger ==
  /\ [](/\ SetReturnedOk =>
             /\ uncompacted <= COMPACTION_THRESHOLD
             /\ ret.ran => uncompacted = 0
        /\ \A t \in Threads :
             th[t].pc \in CompactPcs =>
               /\ th[t].op = "set" /\ mutex = t
               /\ uncompacted > COMPACTION_THRESHOLD)
  /\ [][\A t \in Threads :
          /\ (th[t].pc = "set_index" /\ th'[t].pc # "set_index") =>
               /\ th'[t].pc = "compact" <=> uncompacted' > COMPACTION_THRESHOLD
               /\ th'[t].pc # "compact" => (ret'.op = "set" /\ ret'.res = ResOk)
          /\ (\/ th[t].pc = "idle" /\ th'[t].pc = "set_index"
              \/ th[t].pc = "set_index" /\ th'[t].pc = "idle")
               => /\ cur_gen' = cur_gen
                  /\ writer'.gen = writer.gen
                  /\ DOMAIN files' = DOMAIN files
                  /\ Linked(files') = Linked(files)]_vars

\* after a compaction, a set that overwrote a short record has returned Ok
\* without compacting, some bytes being dead and fewer than the threshold
C21_Witness ==
  /\ SetReturnedOk /\ ~ret.ran
  /\ safe_point >= 2
  /\ uncompacted > 0
  /\ uncompacted <= COMPACTION_THRESHOLD

\* the keys of the index up to rank last, in the order index.iter() yields them
RECURSIVE KeysUpTo(_, _)
KeysUpTo(idx, last) ==
  IF last = 0 THEN <<>>
  ELSE KeysUpTo(idx, last - 1) \o
       (IF KeySeq[last] \in DOMAIN idx THEN <<KeySeq[last]>> ELSE <<>>)

\* the value key k has for the set that thread t is in: the one it is called
\* with for its own key, the plain map's for the others
ValueIn(t, k) == IF k = th[t].key THEN th[t].val ELSE map[k]

\* C22: a compaction keeps the keys of the index and relocates each entry
\* once: while it runs the index has the keys it started with, the entries it
\* has passed are CommandPos{compaction_gen, cur_pos, length} of the records
\* copied so far, one record per key, each the key's Set record unchanged,
\* laid end to end from offset 0, and the entries still to come are where
\* they were; when the set returns every entry is in the compaction
\* generation and reads back the value the key had
C22_CompactionRelocates ==
  /\ \A t \in Threads :
       th[t].pc \in {"compact_copy", "compact_publish", "compact_unlink"} =>
         LET recs == files[comp.gen].recs
             done == KeysUpTo(index, comp.last)
         IN /\ DOMAIN index = DOMAIN map \cup {th[t].key}
            /\ Len(recs) = Len(done)
            /\ comp.cur_pos = SumLen(recs)
            /\ \A i \in 1..Len(done) :
                 /\ recs[i] = CommandSet(done[i], ValueIn(t, done[i]))
                 /\ index[done[i]] =
                      CommandPos(comp.gen, Offset(recs, i), EncLen(recs[i]))
            /\ \A k \in DOMAIN index :
                 KeyRank(k) > comp.last =>
                   /\ index[k].gen < comp.gen
                   /\ index[k].len = EncLen(CommandSet(k, ValueIn(t, k)))
            /\ th[t].pc # "compact_copy" => Len(done) = Cardinality(DOMAIN index)
  /\ (ret.op = "set" /\ ret.ran /\ ret.res = ResOk) =>
       /\ DOMAIN index = DOMAIN map
       /\ \A k \in DOMAIN index :
            /\ index[k].gen = safe_point
            /\ EntryCommand(k) = CommandSet(k, map[k])
       /\ writer.pos = LiveSize

\* a second compaction has returned, having moved two keys out of the output
\* of the first and laid the second key's record behind the first key's
C22_Witness ==
  /\ ret.op = "set" /\ ret.ran /\ ret.res = ResOk
  /\ safe_point >= 3
  /\ DOMAIN index = Keys
  /\ index[KeySeq[1]].pos = 0
  /\ index[KeySeq[2]].pos = index[KeySeq[1]].len

(* ------------------ engine properties: the reader caches ---------------- *)

\* the handles of clone t to generations below the safe point
Stale(t) == {g \in readers[t] : g < safe_point}

\* C23: when a get of an engine clone has had a cache miss, the safe point
\* published by a compaction being known to it, the clone's cache holds no
\* handle to a generation below the safe point
C23_ReaderCachesConverge ==
  [][\A t \in Threads :
       (th[t].pc = "get_open" /\ th'[t].pc # "get_open" /\ safe_point > 0)
          => Stale(t)' = {}]_vars

(* ------------------ engine properties: the writer mutex ----------------- *)

\* thread t is inside KvStoreWriter::set or remove, compaction included
InWriter(t) == th[t].pc \in {"set_index", "rm_write"} \cup CompactPcs

\* C25: at most one clone is inside a set, a remove or the compaction of a
\* set, and it is the one that holds the mutex, from the start of the call
\* to its return; no step taken while a compaction runs adds a key to the
\* index or removes one; and cur_gen, uncompacted and the append stream
\* change only in steps of a call that holds the mutex
C25_OneWriter ==
  /\ [](/\ Cardinality({t \in Threads : InWriter(t)}) <= 1
        /\ \A t \in Threads : InWriter(t) <=> mutex = t)
  /\ [][/\ ((\E t \in Threads : th[t].pc \in CompactPcs) =>
               DOMAIN index' = DOMAIN index)
         /\ ((<<cur_gen, uncompacted, writer>>' # <<cur_gen, uncompacted, writer>>
               /\ ret'.op # "open") =>
               \E t \in Threads :
                  /\ mutex = t \/ mutex' = t
                  /\ InWriter(t) \/ InWriter(t)'
                  /\ \A u \in Threads \ {t} : ~InWriter(u) /\ ~InWriter(u)')]_vars

\* one clone is in the loop of a compaction, the first of two keys copied,
\* while the other clone, between calls, cannot start a set or a remove
C25_Witness ==
  /\ mutex = "t1" /\ th["t1"].pc = "compact_copy"
  /\ comp.last = 1 /\ DOMAIN index = Keys
  /\ th["t2"].pc = "idle" /\ nops < MaxOps
  /\ \A k \in Keys : ~ENABLED SetStart("t2", k) /\ ~ENABLED RemoveStart("t2", k)

(* =============== the engine when fs::remove_file can fail =============== *)

\* the engine clone whose calls the specifications with failures follow
Callers == {"t1"}

\* compact(): fs::remove_file of the next generation of the listing returns
\* Err; the error is logged and the loop goes on
CompactUnlinkFails(t) ==
  /\ th[t].pc = "compact_unlink"
  /\ comp.gens # <<>>
  /\ unlink_failed' = unlink_failed \cup {<<Head(comp.gens), comp.gen>>}
  /\ comp' = [comp EXCEPT !.gens = Tail(@)]
  /\ ret' = Idle
  /\ UNCHANGED <<files, index, writer, cur_gen, uncompacted, safe_point, wreaders,
                 readers, mutex, th, map, wrote, opened, nops>>
  /\ UNCHANGED <<pool_vars, serve_vars, main_vars, kv_vars>>

UnlinkFaultNext ==
  \/ \E t \in Callers, k \in Keys : GetStart(t, k)
  \/ \E t \in Callers : GetOpen(t)
  \/ \E t \in Callers : GetRead(t)
  \/ \E t \in Callers, k \in Keys : SetStart(t, k)
  \/ \E t \in Callers : SetIndex(t)
  \/ \E t \in Callers : CompactStart(t)
  \/ \E t \in Callers : CompactCopy(t)
  \/ \E t \in Callers : CompactFlush(t)
  \/ \E t \in Callers : CompactPublish(t)
  \/ \E t \in Callers : CompactUnlink(t)
  \/ \E t \in Callers : CompactUnlinkFails(t)
  \/ \E t \in Callers : CompactFinish(t)
  \/ \E t \in Callers, k \in Keys : RemoveStart(t, k)
  \/ \E t \in Callers, k \in Keys : RemoveMissing(t, k)
  \/ \E t \in Callers : RemoveWrite(t)
  \/ Reopen

UnlinkFaultSpec == Init /\ [][UnlinkFaultNext]_vars

(* ----------------- properties: safe point, unlink failures -------------- *)

\* the generations compact() has still to unlink
ToUnlink == {comp.gens[i] : i \in 1..Len(comp.gens)}

\* some remove_file of the compaction into generation c failed
UnlinkFailedIn(c) == \E p \in unlink_failed : p[2] = c

\* C24: the safe point of an engine never decreases; it changes only to the
\* generation of a compaction whose writer has been flushed, at a moment when
\* every generation of the compaction's listing is still in the directory;
\* and when a compaction all of whose unlinks succeeded has returned, the
\* safe point is the compaction generation and the smallest generation that
\* has a file
C24_SafePoint ==
  /\ [][ret'.op # "open" => safe_point' >= safe_point]_vars
  /\ [][(safe_point' # safe_point /\ ret'.op # "open") =>
          /\ safe_point' = comp.gen
          /\ files[comp.gen].flushed = SumLen(files[comp.gen].recs)
          /\ ToUnlink = Linked(files) \ {comp.gen}
          /\ ToUnlink \subseteq Linked(files')]_vars
  /\ []((CompactionReturned /\ ~UnlinkFailedIn(safe_point)) =>
          /\ safe_point = cur_gen
          /\ \A k \in DOMAIN index : index[k].gen = safe_point
          /\ safe_point \in Linked(files)
          /\ \A g \in Linked(files) : safe_point <= g)

\* a second compaction has returned, all its unlinks done, one of them of a
\* file the first compaction could not unlink
C24_Witness ==
  /\ CompactionReturned
  /\ safe_point = 3
  /\ <<1, 2>> \in unlink_failed
  /\ ~UnlinkFailedIn(3)
  /\ Linked(files) = {3}

\* C26: a remove_file that fails in compact() fails neither the compaction
\* nor the set: from its unlink loop on the set can only return Ok, with every
\* index entry relocated; the loop attempts every generation of the listing;
\* and the listing of a compaction holds every file an earlier compaction
\* failed to unlink and that is still there
C26_UnlinkFailureIgnored ==
  /\ [](CompactionReturned =>
          \A k \in DOMAIN index :
             /\ index[k].gen = safe_point
             /\ EntryCommand(k).op = "Set" /\ EntryCommand(k).key = k)
  /\ [][\A t \in Threads :
          /\ (th[t].pc = "compact_unlink" /\ th'[t].pc # "compact_unlink") =>
               /\ ret'.op = "set" /\ ret'.res = ResOk
               /\ comp.gens = <<>>
          /\ (th[t].pc = "compact_unlink" /\ comp'.gens # comp.gens) =>
               /\ comp'.gens = Tail(comp.gens)
               /\ \/ Head(comp.gens) \notin Linked(files')
                  \/ <<Head(comp.gens), comp.gen>> \in unlink_failed'
               /\ index' = index
          /\ (th[t].pc = "compact" /\ th'[t].pc = "compact_copy") =>
               \A p \in unlink_failed :
                  p[1] \in Linked(files) => p[1] \in ToUnlink']_vars

\* the second compaction of a process listed the file the first one could not
\* unlink and has just unlinked it
C26_Witness ==
  /\ \E t \in Callers : th[t].pc = "compact_unlink"
  /\ comp.gen = 3
  /\ <<1, 2>> \in unlink_failed
  /\ 1 \notin Linked(files)
  /\ 2 \in ToUnlink

\* no call is in progress
Quiescent == mutex = NoThread /\ \A t \in Threads : th[t].pc = "idle"

\* the index KvStore::open rebuilds from the directory as it is
Replayed == open(Reclaim(files, {})).index

\* the index idx holds the keys of the plain map, each entry referring to the
\* Set record of the key's value
AgreesWithMap(idx) ==
  /\ DOMAIN idx = DOMAIN map
  /\ \A k \in DOMAIN idx :
       /\ idx[k].gen \in DOMAIN files
       /\ ReadAt(files[idx[k].gen], idx[k].pos, idx[k].len) = CommandSet(k, map[k])

\* C27: whichever files the compactions so far failed to unlink, between
\* calls the index an open of the directory would rebuild holds exactly the
\* keys of the plain map with their latest values
C27_DurableAfterUnlinkFailure ==
  (Quiescent /\ unlink_failed # {}) => AgreesWithMap(Replayed)

(* ================ the engine when a write or a listing fails ============ *)

\* to_writer into a BufWriterWithPos whose flush then fails: the BufWriter
\* has taken the bytes, pos has advanced, and the bytes stay in the buffer
\* until a later flush succeeds
AppendUnflushed(F, gen, c) == [F EXCEPT ![gen] = [@ EXCEPT !.recs = Append(@, c)]]

\* KvStoreWriter::set: self.writer.flush()? returns the error, before the
\* index is touched
SetFlushFails(t, k) ==
  /\ th[t].pc = "idle"
  /\ MayProceed("set")
  /\ nops < MaxOps
  /\ LET v == [id |-> nops + 1, len |-> ValueLen(k)]
         c == CommandSet(k, v)
     IN /\ files' = AppendUnflushed(files, writer.gen, c)
        /\ writer' = [writer EXCEPT !.pos = @ + EncLen(c)]
        /\ wrote' = [wrote EXCEPT ![k] = @ \cup {v}]
        /\ ret' = Returned([Idle EXCEPT !.op = "set", !.key = k], ResErr("Io"))
  /\ nops' = nops + 1
  /\ UNCHANGED <<index, cur_gen, uncompacted, safe_point, wreaders, readers,
                 mutex, comp, th, map, opened>>
  /\ UNCHANGED <<pool_vars, serve_vars, main_vars, fault_vars, kv_vars>>

\* KvStoreWriter::remove after index.remove: self.writer.flush()? returns the
\* error
RemoveFlushFails(t) ==
  /\ th[t].pc = "rm_write"
  /\ LET c == CommandRm(th[t].key)
     IN /\ files' = AppendUnflushed(files, writer.gen, c)
        /\ writer' = [writer EXCEPT !.pos = @ + EncLen(c)]
  /\ ret' = Returned(th[t], ResErr("Io"))
  /\ th' = NoteUnlock([th EXCEPT ![t] = Idle])
  /\ mutex' = NoThread
  /\ UNCHANGED <<index, cur_gen, uncompacted, safe_point, wreaders, readers,
                 comp, map, wrote, opened, nops>>
  /\ UNCHANGED <<pool_vars, serve_vars, main_vars, fault_vars, kv_vars>>

\* compact(): sorted_gen_list(&self.path)? returns the error, and set returns
\* it, after its index insert
CompactListFails(t) ==
  /\ th[t].pc = "compact"
  /\ ret' = Returned(th[t], ResErr("Io"))
  /\ th' = NoteUnlock([th EXCEPT ![t] = Idle])
  /\ mutex' = NoThread
  /\ UNCHANGED <<files, index, writer, cur_gen, uncompacted, safe_point,
                 wreaders, readers, comp, map, wrote, opened, nops>>
  /\ UNCHANGED <<pool_vars, serve_vars, main_vars, fault_vars, kv_vars>>

WriteFaultNext ==
  \/ \E t \in Callers, k \in Keys : GetStart(t, k)
  \/ \E t \in Callers : GetOpen(t)
  \/ \E t \in Callers : GetRead(t)
  \/ \E t \in Callers, k \in Keys : SetStart(t, k)
  \/ \E t \in Callers, k \in Keys : SetFlushFails(t, k)
  \/ \E t \in Callers : SetIndex(t)
  \/ \E t \in Callers : CompactStart(t)
  \/ \E t \in Callers : CompactListFails(t)
  \/ \E t \in Callers : CompactCopy(t)
  \/ \E t \in Callers : CompactFlush(t)
  \/ \E t \in Callers : CompactPublish(t)
  \/ \E t \in Callers : CompactUnlink(t)
  \/ \E t \in Callers : CompactFinish(t)
  \/ \E t \in Callers, k \in Keys : RemoveStart(t, k)
  \/ \E t \in Callers, k \in Keys : RemoveMissing(t, k)
  \/ \E t \in Callers : RemoveWrite(t)
  \/ \E t \in Callers : RemoveFlushFails(t)

WriteFaultSpec == Init /\ [][WriteFaultNext]_vars

(* ------------------------ properties: failed calls ---------------------- *)

\* the records of recs that lie within the first n bytes
RECURSIVE Within(_, _)
Within(recs, n) ==
  IF recs = <<>> \/ EncLen(Head(recs)) > n THEN <<>>
  ELSE <<Head(recs)>> \o Within(Tail(recs), n - EncLen(Head(recs)))

\* the directory as an open finds it: of each file the bytes that reached it
OnDisk(F) ==
  [g \in Linked(F) |-> [F[g] EXCEPT !.recs = Within(F[g].recs, F[g].flushed)]]

\* a set or a remove has returned an I/O error
CallFailed == ret.op \in {"set", "remove"} /\ ret.res = ResErr("Io")

\* C28: when a set or a remove has returned an error of a write, of a flush
\* or of the compaction, the index holds the keys of the plain map of the
\* calls that succeeded, each entry reading back the key's value, and so
\* does the index a replay of the log files would rebuild
C28_FailedCallHasNoEffect ==
  CallFailed =>
    /\ AgreesWithMap(index)
    /\ AgreesWithMap(open(OnDisk(files)).index)

(* ================= kv.rs: the single-threaded KvStore =================== *)

\* bound: the calls made on the store in one behaviour, opens included
MaxKvOps == 4

\* new_log_file of kv.rs: the file is created if it is not there, and a
\* reader of it is put into readers
KvNewLogFile(F, rd, gen) == [dir |-> new_log_file(F, gen), readers |-> rd \cup {gen}]

\* KvStore::open of kv.rs: every generation is replayed and its reader kept
KvOpenOn(F) ==
  LET gens == sorted_gen_list(F)
      st == LoadAll(F, gens, [index |-> EmptyIndex, uncompacted |-> 0])
      cur == OpenGen(gens)
      nf == KvNewLogFile(F, Linked(F), cur)
  IN [kv |-> [st |-> "open", index |-> st.index, uncompacted |-> st.uncompacted,
              readers |-> nf.readers, writer |-> [gen |-> cur, pos |-> 0],
              cur_gen |-> cur],
      dir |-> nf.dir]

\* compact() of kv.rs: the generation of the compaction file, and cur_gen
\* from then on
KvNewGen(cur) == cur + 1
KvCurGenAfter(cur) == cur + 2

\* the loop of compact() over index.values_mut(), keys being the entries
\* still to visit: each record is read through the reader of its entry's
\* generation and copied into the compaction file; ok is FALSE once
\* `.expect("cannot find log reader")` has panicked
RECURSIVE KvCopyLoop(_, _, _, _)
KvCopyLoop(keys, rd, new_gen, S) ==
  IF keys = <<>> \/ ~S.ok THEN S
  ELSE LET k == Head(keys)
           e == S.index[k]
       IN IF e.gen \notin rd
          THEN [S EXCEPT !.ok = FALSE]
          ELSE LET c == ReadAt(S.dir[e.gen], e.pos, e.len)
                   len == EncLen(c)
               IN KvCopyLoop(Tail(keys), rd, new_gen,
                    [dir |-> CopyInto(S.dir, new_gen, c),
                     index |-> IndexInsert(S.index, k, CommandPos(new_gen, S.cur_pos, len)),
                     cur_pos |-> S.cur_pos + len,
                     ok |-> TRUE])

\* fs::remove_file of every generation of the listing
RECURSIVE KvRemoveFiles(_, _)
KvRemoveFiles(F, gens) ==
  IF gens = <<>> THEN F ELSE KvRemoveFiles(Unlink(F, Head(gens)), Tail(gens))

\* the store after a panic: the process is gone
KvPanicked == [NoStore EXCEPT !.st = "panicked"]

\* compact() of kv.rs on the store S and the directory F.  When the loop
\* panics the compaction writer is dropped, which writes out what it holds
KvCompact(S, F) ==
  LET new_gen == KvNewGen(S.cur_gen)
      gens == sorted_gen_list(F)
      nf == KvNewLogFile(F, S.readers, new_gen)
      L == KvCopyLoop(KeysUpTo(S.index, Len(KeySeq)), nf.readers, new_gen,
                      [dir |-> nf.dir, index |-> S.index, cur_pos |-> 0, ok |-> TRUE])
      gone == {gens[i] : i \in 1..Len(gens)}
  IN IF L.ok
     THEN [kv |-> [st |-> "open", index |-> L.index, uncompacted |-> 0,
                   readers |-> nf.readers \ gone,
                   writer |-> [gen |-> new_gen, pos |-> L.cur_pos],
                   cur_gen |-> KvCurGenAfter(S.cur_gen)],
           dir |-> Reclaim(KvRemoveFiles(Flush(L.dir, new_gen), gens), {}),
           res |-> ResOk]
     ELSE [kv |-> KvPanicked,
           dir |-> Flush(L.dir, new_gen),
           res |-> ResErr("panic")]

\* KvStore::open of kv.rs, at the start or after the store was dropped or the
\* process ended by a panic
KvOpen ==
  /\ kv_nops < MaxKvOps
  /\ LET o == KvOpenOn(kv_dir)
     IN /\ kv' = o.kv
        /\ kv_dir' = o.dir
  /\ kv_ret' = [NoCall EXCEPT !.op = "open", !.res = ResOk]
  /\ kv_nops' = kv_nops + 1
  /\ UNCHANGED <<kvs_vars, pool_vars, serve_vars, main_vars, fault_vars>>

\* KvStore::set of kv.rs
KvSet(k) ==
  /\ kv.st = "open"
  /\ kv_nops < MaxKvOps
  /\ LET v == [id |-> kv_nops + 1, len |-> ValueLen(k)]
         c == CommandSet(k, v)
         cur_pos == kv.writer.pos
         S == [kv EXCEPT
                 !.index = IndexInsert(@, k, CommandPos(kv.cur_gen, cur_pos, EncLen(c))),
                 !.uncompacted = SetUncompacted(kv.index, @, k),
                 !.writer = [@ EXCEPT !.pos = @ + EncLen(c)]]
         F == AppendFlush(kv_dir, kv.writer.gen, c)
         r == IF S.uncompacted > COMPACTION_THRESHOLD
              THEN KvCompact(S, F)
              ELSE [kv |-> S, dir |-> F, res |-> ResOk]
     IN /\ kv' = r.kv
        /\ kv_dir' = r.dir
        /\ kv_ret' = [NoCall EXCEPT !.op = "set", !.key = k, !.val = v, !.res = r.res]
  /\ kv_nops' = kv_nops + 1
  /\ UNCHANGED <<kvs_vars, pool_vars, serve_vars, main_vars, fault_vars>>

\* KvStore::get of kv.rs: `.expect("Cannot find log reader")` panics when
\* readers has no reader for the generation of the entry
KvGet(k) ==
  /\ kv.st = "open"
  /\ kv_nops < MaxKvOps
  /\ LET res == IF k \notin DOMAIN kv.index THEN ResNone
                ELSE IF kv.index[k].gen \notin kv.readers THEN ResErr("panic")
                ELSE GetResult(ReadAt(kv_dir[kv.index[k].gen],
                                      kv.index[k].pos, kv.index[k].len))
     IN /\ kv' = IF res = ResErr("panic") THEN KvPanicked ELSE kv
        /\ kv_ret' = [NoCall EXCEPT !.op = "get", !.key = k, !.res = res]
  /\ kv_nops' = kv_nops + 1
  /\ UNCHANGED kv_dir
  /\ UNCHANGED <<kvs_vars, pool_vars, serve_vars, main_vars, fault_vars>>

\* KvStore::remove of kv.rs
KvRemove(k) ==
  /\ kv.st = "open"
  /\ kv_nops < MaxKvOps
  /\ IF k \in DOMAIN kv.index
     THEN LET c == CommandRm(k)
          IN /\ kv' = [kv EXCEPT !.index = IndexRemove(@, k),
                                 !.uncompacted = @ + kv.index[k].len,
                                 !.writer = [@ EXCEPT !.pos = @ + EncLen(c)]]
             /\ kv_dir' = AppendFlush(kv_dir, kv.writer.gen, c)
             /\ kv_ret' = [NoCall EXCEPT !.op = "remove", !.key = k, !.res = ResOk]
     ELSE /\ kv_ret' = [NoCall EXCEPT !.op = "remove", !.key = k,
                                      !.res = ResErr("KeyNotFound")]
          /\ UNCHANGED <<kv, kv_dir>>
  /\ kv_nops' = kv_nops + 1
  /\ UNCHANGED <<kvs_vars, pool_vars, serve_vars, main_vars, fault_vars>>

KvNext ==
  \/ KvOpen
  \/ \E k \in Keys : KvSet(k)
  \/ \E k \in Keys : KvGet(k)
  \/ \E k \in Keys : KvRemove(k)

KvSpec == Init /\ [][KvNext]_vars

(* --------------------------- kv.rs properties --------------------------- *)

\* C29: in the store of kv.rs every index entry names a generation that has a
\* reader in `readers` and whose file holds, at the entry's offset, the Set
\* record of the entry's key; no call panics; and a get that follows a set
\* of its key returns the value set
C29_IndexGenerationHasReader ==
  /\ [](/\ kv.st # "panicked"
        /\ \A k \in DOMAIN kv.index :
             LET e == kv.index[k]
             IN /\ e.gen \in kv.readers
                /\ e.gen \in Linked(kv_dir)
                /\ ReadAt(kv_dir[e.gen], e.pos, e.len).op = "Set"
                /\ ReadAt(kv_dir[e.gen], e.pos, e.len).key = k)
  /\ [][(kv_ret.op = "set" /\ kv_ret.res = ResOk
         /\ kv_ret'.op = "get" /\ kv_ret'.key = kv_ret.key)
          => kv_ret'.res = ResSome(kv_ret.val)]_vars

====
